---------------------------- MODULE Spec2Model ----------------------------
(***************************************************************************)
(* ByteClicker (src/src/main.rs): the progression-and-combat core.         *)
(*                                                                         *)
(* The state is the GameState of main(): player (clicks, total_defeated,   *)
(* the three-slot active_team), scene (possible_enemies, active_enemy) and *)
(* frame_time.  Two further variables describe the run itself: the build   *)
(* profile (overflow_checks: a debug build panics on integer overflow, a   *)
(* release build wraps) and panicked (the process has aborted).  op is the *)
(* last call made on the session, its arguments and what it returned.      *)
(*                                                                         *)
(* Units.  frame_time is an f64 number of seconds in the source; the model *)
(* counts it in tenths of a second, so the literal 0.6 is 6.  Rounding of  *)
(* f64 arithmetic is not modelled.                                         *)
(*                                                                         *)
(* Widths.  u64 values that the formulas of LevelStatusSystem compute are  *)
(* held at their full width, as eight 8-bit limbs, least significant limb  *)
(* first: TLC's integers are 32 bits wide and 2^999 is not.  The         *)
(* counters of the state (hp, total_exp, clicks, ...) stay far below 2^31  *)
(* in every state the bounds admit and are plain integers.                 *)
(***************************************************************************)
EXTENDS Integers, Sequences, FiniteSets, TLC

VARIABLES player, scene, frame_time, overflow_checks, panicked, op

vars == <<player, scene, frame_time, overflow_checks, panicked, op>>

----------------------------------------------------------------------------
(* Program constants.                                                      *)

\* The width of u64 (and of i64), the type of every counter and formula.
U64_BITS == 64

\* The level ceiling of to_next_level, update_exp and given_exp's clamp.
LEVEL_CAP == 999

\* HpSystem::new_rand_hp draws hp_base from [RNG_LOW, RNG_HIGH).
RNG_LOW == 100
RNG_HIGH == 1000

\* auto_dmg's interval, 0.6 s, in tenths of a second.
TICK_INTERVAL == 6

\* The length of TeamManager::active_team.
TEAM_SLOTS == 3

----------------------------------------------------------------------------
(* Bounds of the model.                                                    *)

\* Levels of the battlers a session is constructed with: 1..MaxInitLevel.
MaxInitLevel == 2

\* possible_enemies holds 0..MaxTemplates battlers.
MaxTemplates == 2

\* player.clicks is capped: no attack is made once it reaches MaxClicks.
MaxClicks == 3

\* The dt of one auto_dmg call is 0..MaxDtSteps half intervals.
MaxDtSteps == 6

\* frame_time is capped: no auto_dmg call takes it above MaxFrameTime.
MaxFrameTime == 18

\* total_exp is capped where exp is awarded directly: no award takes it above MaxExp.
MaxExp == 130

\* The levels next to the ceiling a session is constructed with:
\* LEVEL_CAP - CeilSpan .. LEVEL_CAP.
CeilSpan == 2

----------------------------------------------------------------------------
(* u64 arithmetic.  A u64 is a tuple of eight limbs of 8 bits, the least   *)
(* significant first.                                                      *)

LimbBase == 2^8
NumLimbs == U64_BITS \div 8

\* The largest value a plain integer of the model holds.
IntMax == 2^30 + (2^30 - 1)

\* n as u64, for 0 <= n <= IntMax.
ToWide(n) ==
    <<n % LimbBase, (n \div LimbBase) % LimbBase, (n \div LimbBase^2) % LimbBase,
      (n \div LimbBase^3) % LimbBase, 0, 0, 0, 0>>

WideFitsInt(w) == w[5] = 0 /\ w[6] = 0 /\ w[7] = 0 /\ w[8] = 0 /\ w[4] < LimbBase \div 2

\* The value of w as a plain integer; IntMax stands for every value above it.
WideToInt(w) ==
    IF WideFitsInt(w)
    THEN w[1] + LimbBase * w[2] + LimbBase^2 * w[3] + LimbBase^3 * w[4]
    ELSE IntMax

RECURSIVE WideCmpFrom(_, _, _)
\* -1, 0, 1 as a < b, a = b, a > b on the limbs i..1.
WideCmpFrom(a, b, i) ==
    IF i = 0 THEN 0
    ELSE IF a[i] < b[i] THEN -1
    ELSE IF a[i] > b[i] THEN 1
    ELSE WideCmpFrom(a, b, i - 1)

WideLt(a, b) == \E x \in {a}, y \in {b} : WideCmpFrom(x, y, NumLimbs) = -1

RECURSIVE ColumnSum(_, _, _, _)
\* The sum of a[i] * b[k + 1 - i] over the limbs i.. of column k.
ColumnSum(a, b, k, i) ==
    IF i > k \/ i > NumLimbs THEN 0
    ELSE (IF k + 1 - i <= NumLimbs THEN a[i] * b[k + 1 - i] ELSE 0)
         + ColumnSum(a, b, k, i + 1)

RECURSIVE Columns(_, _, _)
\* The column sums k.. of the product of a and b.
Columns(a, b, k) ==
    IF k > 2 * NumLimbs - 1 THEN <<>>
    ELSE <<ColumnSum(a, b, k, 1)>> \o Columns(a, b, k + 1)

RECURSIVE Carried(_, _, _)
\* The limbs of the column sums cols[k..], with carry coming in.  The sum
\* of a column and its carry is bound once, as the element of a singleton.
Carried(cols, k, carry) ==
    IF k > Len(cols) THEN <<carry>>
    ELSE CHOOSE r \in {<<sum % LimbBase>> \o Carried(cols, k + 1, sum \div LimbBase) :
                          sum \in {cols[k] + carry}} : TRUE

\* The limbs of the column sums cols, cols being bound once.
CarriedAll(cols, carry) ==
    CHOOSE r \in {Carried(c, 1, carry) : c \in {cols}} : TRUE

\* w is below 2^15: the product of two such values is a plain integer.
WideIsShort(w) ==
    w[2] < LimbBase \div 2 /\ w[3] = 0 /\ w[4] = 0 /\ w[5] = 0 /\ w[6] = 0 /\ w[7] = 0 /\ w[8] = 0

\* a * b: val is the product modulo 2^64, ov says the product is 2^64 or more.
\* Two short factors are multiplied as plain integers, others limb by limb.
WideMulLimbs(a, b) ==
    IF WideIsShort(a) /\ WideIsShort(b)
    THEN [val |-> ToWide(WideToInt(a) * WideToInt(b)), ov |-> FALSE]
    ELSE CHOOSE r \in {[val |-> SubSeq(full, 1, NumLimbs),
                          ov  |-> SubSeq(full, NumLimbs + 1, Len(full))
                                      # <<0, 0, 0, 0, 0, 0, 0, 0>>] :
                             full \in {CarriedAll(Columns(a, b, 1), 0)}} : TRUE

\* u64 multiplication, each factor bound once.
WideMul(a, b) == CHOOSE r \in {WideMulLimbs(x, y) : x \in {a}, y \in {b}} : TRUE

\* a + b, as WideMulLimbs.
WideAddLimbs(a, b) ==
    IF WideIsShort(a) /\ WideIsShort(b)
    THEN [val |-> ToWide(WideToInt(a) + WideToInt(b)), ov |-> FALSE]
    ELSE CHOOSE r \in {[val |-> SubSeq(full, 1, NumLimbs), ov |-> full[NumLimbs + 1] # 0] :
                             full \in {CarriedAll(<<a[1] + b[1], a[2] + b[2], a[3] + b[3],
                                                    a[4] + b[4], a[5] + b[5], a[6] + b[6],
                                                    a[7] + b[7], a[8] + b[8]>>, 0)}} : TRUE

\* u64 addition, each term bound once.
WideAdd(a, b) == CHOOSE r \in {WideAddLimbs(x, y) : x \in {a}, y \in {b}} : TRUE

\* a - b modulo 2^64: a plus the two's complement of b.
WideSubLimbs(a, b) ==
    SubSeq(CarriedAll(<<a[1] + (LimbBase - 1 - b[1]), a[2] + (LimbBase - 1 - b[2]),
                        a[3] + (LimbBase - 1 - b[3]), a[4] + (LimbBase - 1 - b[4]),
                        a[5] + (LimbBase - 1 - b[5]), a[6] + (LimbBase - 1 - b[6]),
                        a[7] + (LimbBase - 1 - b[7]), a[8] + (LimbBase - 1 - b[8])>>, 1),
           1, NumLimbs)

\* Wrapping subtraction, each term bound once.
WideSub(a, b) == CHOOSE r \in {WideSubLimbs(x, y) : x \in {a}, y \in {b}} : TRUE

\* The sign bit of w read as an i64.
WideIsNegative(w) == w[NumLimbs] >= LimbBase \div 2

\* a / 2, truncated.
WideHalf(a) ==
    LET top == LimbBase \div 2
    IN  <<a[1] \div 2 + (a[2] % 2) * top, a[2] \div 2 + (a[3] % 2) * top,
          a[3] \div 2 + (a[4] % 2) * top, a[4] \div 2 + (a[5] % 2) * top,
          a[5] \div 2 + (a[6] % 2) * top, a[6] \div 2 + (a[7] % 2) * top,
          a[7] \div 2 + (a[8] % 2) * top, a[8] \div 2>>

\* The last step of WidePow: sq is base squared, rest is sq^(exp / 2).
WidePowStep(base, exp, sq, rest, odd) ==
    IF exp % 2 = 1
    THEN [val |-> odd.val, ov |-> sq.ov \/ rest.ov \/ odd.ov]
    ELSE [val |-> rest.val, ov |-> sq.ov \/ rest.ov]

RECURSIVE WidePow(_, _)
\* u64::pow, by squaring: overflows exactly when base^exp is 2^64 or more.
\* Each intermediate value is bound once, as the element of a singleton.
WidePow(base, exp) ==
    IF exp = 0 THEN [val |-> ToWide(1), ov |-> FALSE]
    ELSE IF exp = 1 THEN [val |-> base, ov |-> FALSE]
    ELSE CHOOSE r \in UNION {UNION {{WidePowStep(base, exp, sq, rest, odd) :
                                        odd \in {WideMul(rest.val, base)}} :
                                    rest \in {WidePow(sq.val, exp \div 2)}} :
                             sq \in {WideMul(base, base)}} : TRUE

----------------------------------------------------------------------------
(* Values.  Option<T> is a sequence: <<>> is None, <<x>> is Some(x).       *)
(* Battler omits turn_timer, and BytePet omits id, byte_level and          *)
(* attribute: no operation reads them.                                     *)

None == <<>>
Some(x) == <<x>>
is_none(e) == e = <<>>

\* macroquad's clamp(value, min, max).
clamp(value, min, max) ==
    IF value < min THEN min ELSE IF value > max THEN max ELSE value

\* impl Default for Status.
Status_default == [str |-> 20, def |-> 10, speed |-> 10]

\* impl Default for LevelStatusSystem.
LevelStatusSystem_default ==
    [level |-> 1, total_exp |-> 0, base_exp_needed |-> 30,
     status_upgrade |-> [str |-> 5, def |-> 4, speed |-> 2],
     needed_multiplier |-> 1]

\* impl Default for BytePet.
BytePet_default == [s_level |-> LevelStatusSystem_default, status |-> Status_default]

\* HpSystem::new_rand_hp, with the number the generator returned.
new_rand_hp(drawn) == [hp_base |-> drawn, hp |-> drawn]

\* impl Default for Battler, with the number the generator returned.
Battler_default(drawn) ==
    [s_hp |-> new_rand_hp(drawn), name |-> "PHoldermon", data |-> BytePet_default]

----------------------------------------------------------------------------
(* HpSystem                                                                *)

\* update_hp taking a negative value as a loss.
update_hp_signed(s, value) == [s EXCEPT !.hp = clamp(s.hp + value, 0, s.hp_base)]

\* update_hp without its clamp.
update_hp_unclamped(s, value) ==
    IF value >= 0
    THEN [s EXCEPT !.hp = s.hp + value]
    ELSE s

update_hp(s, value) ==
    IF value >= 0
    THEN [s EXCEPT !.hp = clamp(s.hp + value, 0, s.hp_base)]
    ELSE s

\* (value as u64) > x, for an i64 value and a u64 x below 2^63: the cast
\* takes a negative value to value + 2^64, which is 2^63 or more.
AsU64Greater(value, x) == value < 0 \/ value > x

\* do_damage doing none.
HpSystem_do_damage_none(s, value) == s

\* do_damage without its test: the subtraction alone.
HpSystem_do_damage_untested(s, value) == [s EXCEPT !.hp = s.hp - value]

HpSystem_do_damage(s, value) ==
    IF AsU64Greater(value, s.hp)
    THEN [s EXCEPT !.hp = 0]
    ELSE [s EXCEPT !.hp = s.hp - value]

is_alive(s) == s.hp > 0

----------------------------------------------------------------------------
(* LevelStatusSystem.  A result that integer overflow can reach carries ov *)
(* (some operation overflowed) beside the wrapped value val; what becomes  *)
(* of it, a panic or the wrapped value, is the build's choice.             *)

formula_lvlup_of(p, m) == [val |-> m.val, ov |-> p.ov \/ m.ov]

formula_lvlup(s) ==
    CHOOSE f \in UNION {{formula_lvlup_of(p, m) :
                            m \in {WideMul(ToWide(s.base_exp_needed), p.val)}} :
                        p \in {WidePow(ToWide(s.needed_multiplier + 1), s.level)}} : TRUE

\* to_next_level: val is the i64 result in two's complement; ov says the
\* formula overflowed, or the subtraction did as an i64 subtraction.
to_next_level_of(s, f) ==
    CHOOSE r \in {[val |-> d, ov |-> f.ov \/ (WideIsNegative(f.val) /\ ~WideIsNegative(d))] :
                     d \in {WideSub(f.val, ToWide(s.total_exp))}} : TRUE

to_next_level(s) ==
    IF s.level < LEVEL_CAP
    THEN CHOOSE r \in {to_next_level_of(s, f) : f \in {formula_lvlup(s)}} : TRUE
    ELSE [val |-> ToWide(0), ov |-> FALSE]

\* update_exp spending the threshold on a level-up.
update_exp_spending(s, total, f) ==
    IF f.ov /\ overflow_checks
    THEN [s |-> s, panic |-> TRUE]
    ELSE IF WideLt(f.val, ToWide(total)) /\ s.level < LEVEL_CAP
         THEN [s |-> [s EXCEPT !.total_exp = total - WideToInt(f.val), !.level = s.level + 1],
               panic |-> FALSE]
         ELSE [s |-> [s EXCEPT !.total_exp = total], panic |-> FALSE]

\* update_exp: s is the result, panic says the call aborted instead.
update_exp_with(s, total, f) ==
    IF f.ov /\ overflow_checks
    THEN [s |-> s, panic |-> TRUE]
    ELSE [s |-> [s EXCEPT !.total_exp = total,
                          !.level = IF WideLt(f.val, ToWide(total)) /\ s.level < LEVEL_CAP
                                    THEN s.level + 1
                                    ELSE s.level],
          panic |-> FALSE]

update_exp(s, exp) ==
    CHOOSE r \in {update_exp_with(s, total, f) :
                     total \in {s.total_exp + exp}, f \in {formula_lvlup(s)}} : TRUE

\* given_exp once the formula is computed: m is the product, a the sum.
given_exp_of(f, m, a) == [val |-> a.val, ov |-> f.ov \/ m.ov \/ a.ov]

given_exp(s, lvl) ==
    CHOOSE r \in UNION {UNION {{given_exp_of(f, m, a) :
                                   a \in {WideAdd(m.val, ToWide(1))}} :
                               m \in {WideMul(WideHalf(f.val),
                                              ToWide(clamp(s.level - lvl, 1, LEVEL_CAP)))}} :
                        f \in {formula_lvlup(s)}} : TRUE

get_upgraded_status(s) ==
    [str   |-> s.status_upgrade.str * s.level,
     speed |-> s.status_upgrade.speed * s.level,
     def   |-> s.status_upgrade.def * s.level]

----------------------------------------------------------------------------
(* Status, BytePet, Battler, TeamManager, Player                           *)

Status_sum(self, status_upg) ==
    [str   |-> self.str + status_upg.str,
     def   |-> self.def + status_upg.def,
     speed |-> self.speed + status_upg.speed]

\* get_power without the status the levels add.
BytePet_get_power_unlevelled(b) == b.status

BytePet_get_power(b) ==
    [str   |-> b.status.str + get_upgraded_status(b.s_level).str,
     def   |-> b.status.def + get_upgraded_status(b.s_level).def,
     speed |-> b.status.speed + get_upgraded_status(b.s_level).speed]

\* Battler::change_hp.
change_hp(b, value) == [b EXCEPT !.s_hp = update_hp(@, value)]

RECURSIVE TeamPowerFrom(_, _, _)
\* The loop of get_team_power from slot i on, team_status being the sum so far.
TeamPowerFrom(active_team, i, team_status) ==
    IF i > Len(active_team) THEN team_status
    ELSE TeamPowerFrom(active_team, i + 1,
            IF is_none(active_team[i]) THEN team_status
            ELSE Status_sum(team_status, BytePet_get_power(active_team[i][1].data)))

get_team_power(active_team) ==
    TeamPowerFrom(active_team, 1, [str |-> 0, def |-> 0, speed |-> 0])

\* impl Default for Player.
Player_default ==
    [clicks |-> 0, total_defeated |-> 0, active_team |-> [i \in 1..TEAM_SLOTS |-> None]]

RECURSIVE AddPetFrom(_, _, _)
\* The loop of add_pet from slot i on.
AddPetFrom(p, new_bp, i) ==
    IF i > Len(p.active_team) THEN [player |-> p, ok |-> FALSE]
    ELSE IF is_none(p.active_team[i])
         THEN [player |-> [p EXCEPT !.active_team[i] = Some(new_bp)], ok |-> TRUE]
         ELSE AddPetFrom(p, new_bp, i + 1)

\* add_pet replacing the first pet of a full team.
add_pet_replacing(p, new_bp) ==
    IF AddPetFrom(p, new_bp, 1).ok
    THEN AddPetFrom(p, new_bp, 1)
    ELSE [player |-> [p EXCEPT !.active_team[1] = Some(new_bp)], ok |-> TRUE]

add_pet(p, new_bp) == AddPetFrom(p, new_bp, 1)

\* add_exp_to_pets: every occupied slot takes update_exp; the call aborts
\* when one of them does.
add_exp_to_pets(p, exp) ==
    [player |-> [p EXCEPT !.active_team =
                    [i \in 1..TEAM_SLOTS |->
                        IF is_none(p.active_team[i]) THEN None
                        ELSE Some([p.active_team[i][1] EXCEPT
                                     !.data.s_level = update_exp(@, exp).s])]],
     panic  |-> \E i \in 1..TEAM_SLOTS :
                   /\ ~is_none(p.active_team[i])
                   /\ update_exp(p.active_team[i][1].data.s_level, exp).panic]

\* get_power reading the def of the team instead of its str.
Player_get_power_of_def(p) == 0 + get_team_power(p.active_team).def

\* Player::get_power.
Player_get_power(p) == 0 + get_team_power(p.active_team).str

----------------------------------------------------------------------------
(* Scene                                                                   *)

\* new_enemy taking the last template instead of the first.
new_enemy_last(sc) ==
    IF Len(sc.possible_enemies) > 0
    THEN [sc EXCEPT !.active_enemy = sc.possible_enemies[Len(sc.possible_enemies)]]
    ELSE sc

new_enemy(sc) ==
    IF Len(sc.possible_enemies) > 0
    THEN [sc EXCEPT !.active_enemy = sc.possible_enemies[1]]
    ELSE sc

\* check_enemy_defeated without its call of new_enemy.
check_enemy_defeated_keeping(sc) ==
    IF ~is_alive(sc.active_enemy.s_hp)
    THEN [scene |-> sc, ret |-> Some(sc.active_enemy)]
    ELSE [scene |-> sc, ret |-> None]

check_enemy_defeated(sc) ==
    IF ~is_alive(sc.active_enemy.s_hp)
    THEN [scene |-> new_enemy(sc), ret |-> Some(sc.active_enemy)]
    ELSE [scene |-> sc, ret |-> None]

Scene_do_damage(sc, dmg) ==
    check_enemy_defeated([sc EXCEPT !.active_enemy.s_hp = HpSystem_do_damage(@, dmg)])

----------------------------------------------------------------------------
(* GameState.  A GameState value is [player, scene, frame_time]; a call    *)
(* returns the new value gs, whether it panicked, the number of manual_dmg *)
(* resolutions it made (fired), the damage of the last one (dmg) and what  *)
(* Scene::do_damage returned to it (ret).                                  *)

update_time(gs, dt) == [gs EXCEPT !.frame_time = @ + dt]

\* manual_dmg counting a defeat but not the click that made it.
manual_dmg_defeated_unclicked(gs, dmg, e, exp, a) ==
    IF (exp.ov /\ overflow_checks) \/ a.panic
    THEN [gs |-> gs, panic |-> TRUE, fired |-> 1, dmg |-> dmg, ret |-> e.ret]
    ELSE [gs |-> [gs EXCEPT !.scene = e.scene,
                            !.player = [a.player EXCEPT !.total_defeated = @ + 1,
                                                        !.clicks = gs.player.clicks]],
          panic |-> FALSE, fired |-> 1, dmg |-> dmg, ret |-> e.ret]

\* manual_dmg once the team has taken exp: a is what add_exp_to_pets returned.
manual_dmg_defeated(gs, dmg, e, exp, a) ==
    IF (exp.ov /\ overflow_checks) \/ a.panic
    THEN [gs |-> gs, panic |-> TRUE, fired |-> 1, dmg |-> dmg, ret |-> e.ret]
    ELSE [gs |-> [gs EXCEPT !.scene = e.scene,
                            !.player = [a.player EXCEPT !.total_defeated = @ + 1]],
          panic |-> FALSE, fired |-> 1, dmg |-> dmg, ret |-> e.ret]

\* manual_dmg once a defeated enemy came back: exp is its given_exp(1).
manual_dmg_some(gs, dmg, e, exp) ==
    CHOOSE r \in {manual_dmg_defeated(gs, dmg, e, exp, a) :
                     a \in {add_exp_to_pets([gs.player EXCEPT !.clicks = @ + 1],
                                            WideToInt(exp.val))}} : TRUE

\* manual_dmg awarding the given_exp of the enemy that came in, not of the
\* one that was defeated.
manual_dmg_done_by_new_enemy(gs, dmg, e) ==
    IF is_none(e.ret)
    THEN [gs |-> [gs EXCEPT !.scene = e.scene, !.player.clicks = @ + 1],
          panic |-> FALSE, fired |-> 1, dmg |-> dmg, ret |-> e.ret]
    ELSE CHOOSE r \in {manual_dmg_some(gs, dmg, e, exp) :
                          exp \in {given_exp(e.scene.active_enemy.data.s_level, 1)}} : TRUE

\* manual_dmg counting a defeat on every attack, defeating or not.
manual_dmg_done_counting(gs, dmg, e) ==
    IF is_none(e.ret)
    THEN [gs |-> [gs EXCEPT !.scene = e.scene, !.player.clicks = @ + 1,
                            !.player.total_defeated = @ + 1],
          panic |-> FALSE, fired |-> 1, dmg |-> dmg, ret |-> e.ret]
    ELSE CHOOSE r \in {manual_dmg_some(gs, dmg, e, exp) :
                          exp \in {given_exp(e.ret[1].data.s_level, 1)}} : TRUE

\* manual_dmg once the damage is done: e is what Scene::do_damage returned.
manual_dmg_done(gs, dmg, e) ==
    IF is_none(e.ret)
    THEN [gs |-> [gs EXCEPT !.scene = e.scene, !.player.clicks = @ + 1],
          panic |-> FALSE, fired |-> 1, dmg |-> dmg, ret |-> e.ret]
    ELSE CHOOSE r \in {manual_dmg_some(gs, dmg, e, exp) :
                          exp \in {given_exp(e.ret[1].data.s_level, 1)}} : TRUE

manual_dmg_with(gs, dmg) ==
    CHOOSE r \in {manual_dmg_done(gs, dmg, e) : e \in {Scene_do_damage(gs.scene, dmg)}} : TRUE

manual_dmg(gs) ==
    CHOOSE r \in {manual_dmg_with(g, dmg) :
                     g \in {gs}, dmg \in {Player_get_power(gs.player)}} : TRUE

\* auto_dmg setting frame_time to 0 when it attacks.
auto_dmg_resetting(gs, dt) ==
    IF update_time(gs, dt).frame_time >= TICK_INTERVAL
    THEN manual_dmg([update_time(gs, dt) EXCEPT !.frame_time = 0])
    ELSE [gs |-> update_time(gs, dt), panic |-> FALSE, fired |-> 0, dmg |-> 0, ret |-> None]

auto_dmg(gs, dt) ==
    IF update_time(gs, dt).frame_time >= TICK_INTERVAL
    THEN manual_dmg([update_time(gs, dt) EXCEPT !.frame_time = @ - TICK_INTERVAL])
    ELSE [gs |-> update_time(gs, dt), panic |-> FALSE, fired |-> 0, dmg |-> 0, ret |-> None]

----------------------------------------------------------------------------
(* The session of main() and the calls made on it.                         *)

GS == [player |-> player, scene |-> scene, frame_time |-> frame_time]

\* The record of a call: its name, its argument, and what it returned.
Call(name, arg, fired, dmg, ret, ok) ==
    [name |-> name, arg |-> arg, fired |-> fired, dmg |-> dmg, ret |-> ret, ok |-> ok]

\* The state after a call that returned r: a panic aborts the process, and
\* the session keeps the value it had when the call was made.
Returned(r) ==
    /\ panicked' = r.panic
    /\ player' = IF r.panic THEN player ELSE r.gs.player
    /\ scene' = IF r.panic THEN scene ELSE r.gs.scene
    /\ frame_time' = IF r.panic THEN frame_time ELSE r.gs.frame_time
    /\ UNCHANGED overflow_checks

\* The numbers the generator of new_rand_hp returns in the model.
HpDraws == {RNG_LOW, RNG_LOW + RNG_LOW \div 2}

\* A battler as main() builds it, the level being one BytePet::new accepts.
NewBattler(name, drawn, level) ==
    [Battler_default(drawn) EXCEPT !.name = name, !.data.s_level.level = level]

\* The enemy main() starts with: any draw, any level of the bound.
Enemies == {NewBattler("PHoldermon", h, l) : h \in HpDraws, l \in 1..MaxInitLevel}

\* The templates of main(): n times Battler::default(), the draws taking
\* turns from either one on.
Pools ==
    {[i \in 1..n |-> Battler_default(IF (first + i) % 2 = 0
                                     THEN RNG_LOW
                                     ELSE RNG_LOW + RNG_LOW \div 2)] :
         n \in 0..MaxTemplates, first \in 0..1}

PetNames == <<"PHoldermon", "Bertrano", "Fipongo">>

\* The rosters add_pet builds from Player::default(): the first k slots
\* filled, the levels of the pets cycling through 1..MaxInitLevel from first.
Rosters ==
    {[i \in 1..TEAM_SLOTS |->
         IF i <= k
         THEN Some(NewBattler(PetNames[i], RNG_LOW, ((first + i - 2) % MaxInitLevel) + 1))
         ELSE None] : k \in 0..TEAM_SLOTS, first \in 1..MaxInitLevel}

\* The frame times of update(): whole and half intervals.
DtChoices == {k * (TICK_INTERVAL \div 2) : k \in 0..MaxDtSteps}

\* main(): the scene, the player with its pets, frame_time 0.
Init ==
    /\ player \in {[Player_default EXCEPT !.active_team = r] : r \in Rosters}
    /\ scene \in [possible_enemies : Pools, active_enemy : Enemies]
    /\ frame_time = 0
    /\ overflow_checks \in BOOLEAN
    /\ panicked = FALSE
    /\ op = Call("main", 0, 0, 0, None, TRUE)

\* update(): a key press or a click.
ManualDmg ==
    /\ ~panicked
    /\ player.clicks < MaxClicks
    /\ \E r \in {manual_dmg(GS)} :
           /\ Returned(r)
           /\ op' = Call("manual_dmg", 0, r.fired, r.dmg, r.ret, ~r.panic)

\* update(): the A key held down for a frame of dt.
AutoDmg(dt) ==
    /\ ~panicked
    /\ player.clicks < MaxClicks
    /\ frame_time + dt <= MaxFrameTime
    /\ \E r \in {auto_dmg(GS, dt)} :
           /\ Returned(r)
           /\ op' = Call("auto_dmg", dt, r.fired, r.dmg, r.ret, ~r.panic)

Next ==
    \/ ManualDmg
    \/ \E dt \in DtChoices : AutoDmg(dt)

Spec == Init /\ [][Next]_vars

----------------------------------------------------------------------------
(* The session under a player who keeps attacking.                         *)

\* main() with one template at most and a level 1 enemy.
InitProgress ==
    /\ Init
    /\ Len(scene.possible_enemies) <= 1
    /\ scene.active_enemy.data.s_level.level = 1

\* update(): clicks, and the A key held for frames of nothing or of 0.6 s.
NextProgress ==
    \/ ManualDmg
    \/ \E dt \in {0, TICK_INTERVAL} : AutoDmg(dt)

\* manual_dmg is made again and again as long as it can be.
SpecProgress == InitProgress /\ [][NextProgress]_vars /\ WF_vars(ManualDmg)

----------------------------------------------------------------------------
(* The hit points: Scene::do_damage and Battler::change_hp called with     *)
(* any amount, next to the attacks.                                        *)

\* The amounts of a direct Scene::do_damage: negative, nothing, half a
\* battler, a whole one, more than any.
DamageChoices == {-1, 0, RNG_LOW \div 2, RNG_LOW, RNG_HIGH}

\* The amounts of Battler::change_hp: a negative one, nothing, half a battler, more
\* than any.
HealChoices == {-(RNG_LOW \div 2), 0, RNG_LOW \div 2, RNG_HIGH}

\* Scene::do_damage(dmg), the result dropped.
SceneDoDamage(dmg) ==
    /\ ~panicked
    /\ \E r \in {Scene_do_damage(scene, dmg)} :
           /\ scene' = r.scene
           /\ op' = Call("do_damage", dmg, 1, dmg, r.ret, TRUE)
    /\ UNCHANGED <<player, frame_time, overflow_checks, panicked>>

\* Battler::change_hp(value) on the active enemy (target 0) or on the pet
\* of slot target; the record keeps <<target, value>>.
ChangeHp(target, value) ==
    /\ ~panicked
    /\ IF target = 0
       THEN /\ scene' = [scene EXCEPT !.active_enemy = change_hp(@, value)]
            /\ UNCHANGED player
       ELSE /\ ~is_none(player.active_team[target])
            /\ player' = [player EXCEPT
                              !.active_team[target] = Some(change_hp(@[1], value))]
            /\ UNCHANGED scene
    /\ op' = Call("change_hp", <<target, value>>, 0, 0, None, TRUE)
    /\ UNCHANGED <<frame_time, overflow_checks, panicked>>

\* main() with a level 1 pet in the first slot and none in the last.
InitHp ==
    /\ Init
    /\ ~is_none(player.active_team[1])
    /\ player.active_team[1][1].data.s_level.level = 1
    /\ is_none(player.active_team[TEAM_SLOTS])

NextHp ==
    \/ ManualDmg
    \/ \E dt \in {0, TICK_INTERVAL} : AutoDmg(dt)
    \/ \E dmg \in DamageChoices : SceneDoDamage(dmg)
    \/ \E target \in 0..TEAM_SLOTS, value \in HealChoices : ChangeHp(target, value)

SpecHp == InitHp /\ [][NextHp]_vars

----------------------------------------------------------------------------
(* The roster: add_pet called on Player::default(), next to the attacks.   *)

\* The pets handed to add_pet.
NewPets ==
    {NewBattler(PetNames[n], RNG_LOW, l) : n \in 2..TEAM_SLOTS, l \in 1..MaxInitLevel}

\* main(): player.add_pet(new_bp), the result kept in the record.
AddPet(new_bp) ==
    /\ ~panicked
    /\ \E r \in {add_pet(player, new_bp)} :
           /\ player' = r.player
           /\ op' = Call("add_pet", new_bp, 0, 0, None, r.ok)
    /\ UNCHANGED <<scene, frame_time, overflow_checks, panicked>>

\* main() before its first add_pet.
InitRoster ==
    /\ player = Player_default
    /\ scene = [possible_enemies |-> <<Battler_default(RNG_LOW)>>,
                active_enemy |-> Battler_default(RNG_LOW)]
    /\ frame_time = 0
    /\ overflow_checks \in BOOLEAN
    /\ panicked = FALSE
    /\ op = Call("main", 0, 0, 0, None, TRUE)

NextRoster ==
    \/ ManualDmg
    \/ \E new_bp \in NewPets : AddPet(new_bp)

SpecRoster == InitRoster /\ [][NextRoster]_vars

----------------------------------------------------------------------------
(* The levels: add_exp_to_pets called with any exp, next to the attacks,   *)
(* on the pets of main() and on pets built next to LEVEL_CAP.              *)

\* The exp of an award: nothing, the reward of a level 1 enemy, and one
\* more than the threshold of level 2, which is above that of level 1 too.
ExpChoices ==
    {0, BytePet_default.s_level.base_exp_needed + 1,
     4 * BytePet_default.s_level.base_exp_needed + 1}

\* The rosters of pets built next to the ceiling: the first k slots filled,
\* the levels cycling through LEVEL_CAP - CeilSpan .. LEVEL_CAP from first.
CeilRosters ==
    {[i \in 1..TEAM_SLOTS |->
         IF i <= k
         THEN Some(NewBattler(PetNames[i], RNG_LOW,
                              LEVEL_CAP - ((first + i) % (CeilSpan + 1))))
         ELSE None] : k \in 1..TEAM_SLOTS, first \in 0..CeilSpan}

\* manual_dmg: self.player.add_exp_to_pets(exp), for any exp.
AwardExp(exp) ==
    /\ ~panicked
    /\ \A i \in 1..TEAM_SLOTS :
           IF is_none(player.active_team[i]) THEN TRUE
           ELSE player.active_team[i][1].data.s_level.total_exp + exp <= MaxExp
    /\ \E r \in {add_exp_to_pets(player, exp)} :
           /\ panicked' = r.panic
           /\ player' = IF r.panic THEN player ELSE r.player
           /\ op' = Call("add_exp_to_pets", exp, 0, 0, None, ~r.panic)
    /\ UNCHANGED <<scene, frame_time, overflow_checks>>

InitLevel ==
    /\ player \in {[Player_default EXCEPT !.active_team = r] : r \in Rosters \union CeilRosters}
    /\ scene = [possible_enemies |-> <<Battler_default(RNG_LOW)>>,
                active_enemy |-> Battler_default(RNG_LOW)]
    /\ frame_time = 0
    /\ overflow_checks \in BOOLEAN
    /\ panicked = FALSE
    /\ op = Call("main", 0, 0, 0, None, TRUE)

NextLevel ==
    \/ ManualDmg
    \/ \E exp \in ExpChoices : AwardExp(exp)

SpecLevel == InitLevel /\ [][NextLevel]_vars

----------------------------------------------------------------------------
(* Properties.  What they say of a call is said of the step that makes it: *)
(* op' is the record of the call, the unprimed variables are the session   *)
(* it was made on.                                                         *)

\* The step is a call that resolved one manual_dmg and returned.
AttackStep == op'.name \in {"manual_dmg", "auto_dmg"} /\ op'.fired = 1 /\ op'.ok

\* The str a slot adds to the damage of an attack.
SlotStr(e) ==
    IF e = None THEN 0
    ELSE e[1].data.status.str
         + e[1].data.s_level.status_upgrade.str * e[1].data.s_level.level

\* The damage of an attack of the team.
TeamStr(team) == SlotStr(team[1]) + SlotStr(team[2]) + SlotStr(team[3])

\* hp after damage d, as the specification states it.
HpAfter(hp, d) == IF hp - d > 0 THEN hp - d ELSE 0

\* C1: an auto_dmg(1.8) made on a session with frame_time 0 resolves
\* exactly three manual_dmg and leaves the session as three auto_dmg(0.6) in
\* a row leave it; and any auto_dmg(dt) resolves one manual_dmg for every
\* whole 0.6 of frame_time + dt.
C1_AutoTickEquivalence ==
    [][(op'.name = "auto_dmg" /\ op'.ok) =>
           /\ op'.fired = (frame_time + op'.arg) \div TICK_INTERVAL
           /\ (frame_time = 0 /\ op'.arg = 3 * TICK_INTERVAL) =>
                  /\ op'.fired = 3
                  /\ [player |-> player', scene |-> scene', frame_time |-> frame_time']
                         = auto_dmg(auto_dmg(auto_dmg(GS, TICK_INTERVAL).gs,
                                             TICK_INTERVAL).gs, TICK_INTERVAL).gs]_vars

\* C2: after every auto_dmg(dt) that returned, 0 <= frame_time < 0.6.
C2_ClockInvariant ==
    (op.name = "auto_dmg" /\ op.ok) =>
        (0 <= frame_time /\ frame_time < TICK_INTERVAL)

\* C3: with no template in possible_enemies, no attack returns leaving an
\* enemy of hp 0 in place as the active enemy.
C3_EmptyPoolFails ==
    (scene.possible_enemies = <<>> /\ op.name \in {"manual_dmg", "auto_dmg"} /\ op.ok) =>
        scene.active_enemy.s_hp.hp > 0

\* The battlers of the session: the active enemy, the templates, the pets.
Combatants ==
    {scene.active_enemy}
        \union {scene.possible_enemies[i] : i \in 1..Len(scene.possible_enemies)}
        \union {player.active_team[i][1] :
                    i \in {j \in 1..TEAM_SLOTS : player.active_team[j] # None}}

\* C4: in every state, whatever do_damage, change_hp, manual_dmg and
\* auto_dmg calls were made, every battler has 0 <= hp <= hp_base.
C4_HpBounds == \A b \in Combatants : 0 <= b.s_hp.hp /\ b.s_hp.hp <= b.s_hp.hp_base

\* A change_hp of more than any hp_base was made after an attack, and the
\* enemy is at hp_base: the amount was cut.
C4_Witness ==
    /\ op.name = "change_hp" /\ op.arg = <<0, RNG_HIGH>>
    /\ player.clicks > 0
    /\ scene.active_enemy.s_hp.hp = scene.active_enemy.s_hp.hp_base

\* The damage of the step's call: the argument of a direct do_damage, the
\* str of the team for an attack.
DamageOf == IF op'.name = "do_damage" THEN op'.arg ELSE TeamStr(player.active_team)

\* The step is a direct Scene::do_damage or an attack.
DamageStep == op'.name = "do_damage" \/ AttackStep

\* The tracker the damage of the step was done to, after it: the one of the
\* enemy handed back, or the active enemy's.
DamagedHp == IF op'.ret = None THEN scene'.active_enemy.s_hp ELSE op'.ret[1].s_hp

\* C5: do_damage(d) with d >= 0 leaves hp = max(old hp - d, 0): exactly 0
\* when d >= old hp, the old hp when d = 0; hp_base is kept.
C5_DamageResult ==
    [][(DamageStep /\ DamageOf >= 0) =>
           /\ DamagedHp.hp = HpAfter(scene.active_enemy.s_hp.hp, DamageOf)
           /\ DamagedHp.hp_base = scene.active_enemy.s_hp.hp_base]_vars

\* A direct do_damage of half the lowest hp_base took the hp it was done to
\* to 0; no attack was made before, so that hp was the amount itself.
C5_Witness ==
    /\ op.name = "do_damage" /\ op.arg = RNG_LOW \div 2
    /\ player.clicks = 0
    /\ op.ret # None /\ op.ret[1].s_hp.hp = 0

\* given_exp(1) of a battler of level data l, as the specification states
\* it: formula(level) / 2 * clamp(level - 1, 1, 999) + 1.
RewardOf(l) ==
    ((l.base_exp_needed * (l.needed_multiplier + 1)^l.level) \div 2)
        * clamp(l.level - 1, 1, LEVEL_CAP) + 1

\* C6: an attack that defeats the active enemy adds exactly 1 to
\* total_defeated and exactly the given_exp(1) of the defeated enemy, taken
\* from its own level (31 at level 1), to the total_exp of every pet of the
\* team; the empty slots stay empty.
C6_DefeatReward ==
    [][(AttackStep /\ scene.active_enemy.s_hp.hp <= TeamStr(player.active_team)) =>
           /\ player'.total_defeated = player.total_defeated + 1
           /\ scene.active_enemy.data.s_level.level = 1 =>
                  RewardOf(scene.active_enemy.data.s_level) = 31
           /\ \A i \in 1..TEAM_SLOTS :
                  IF player.active_team[i] = None
                  THEN player'.active_team[i] = None
                  ELSE /\ player'.active_team[i] # None
                       /\ player'.active_team[i][1].data.s_level.total_exp
                              = player.active_team[i][1].data.s_level.total_exp
                                    + RewardOf(scene.active_enemy.data.s_level)]_vars

\* An enemy of level 2 was defeated, a level 1 template came in, and the
\* first pet holds the 61 exp a level 2 enemy gives while the last slot is
\* empty.
C6_Witness ==
    /\ op.name \in {"manual_dmg", "auto_dmg"}
    /\ op.ret # None /\ op.ret[1].data.s_level.level = 2
    /\ scene.active_enemy.data.s_level.level = 1
    /\ player.total_defeated = 1
    /\ player.active_team[1] # None
    /\ player.active_team[1][1].data.s_level.total_exp = 61
    /\ player.active_team[TEAM_SLOTS] = None

\* C7: with a template in possible_enemies, Scene::do_damage(amount) hands
\* back an enemy exactly when the active enemy's hp is 0 after the damage;
\* then it hands back that enemy, at hp 0, and the active enemy is a copy
\* of possible_enemies[0]; otherwise the active enemy differs only by its
\* lower hp.
C7_EnemyReplacement ==
    [][(DamageStep /\ DamageOf >= 0 /\ Len(scene.possible_enemies) > 0) =>
           /\ (op'.ret # None) <=> (HpAfter(scene.active_enemy.s_hp.hp, DamageOf) = 0)
           /\ op'.ret # None =>
                  /\ op'.ret = Some([scene.active_enemy EXCEPT !.s_hp.hp = 0])
                  /\ scene'.active_enemy = scene.possible_enemies[1]
           /\ op'.ret = None =>
                  scene'.active_enemy =
                      [scene.active_enemy EXCEPT
                           !.s_hp.hp = HpAfter(scene.active_enemy.s_hp.hp, DamageOf)]
           /\ scene'.possible_enemies = scene.possible_enemies]_vars

\* Of two different templates the first came in for a defeated enemy that
\* was no copy of it.
C7_Witness ==
    /\ op.name \in {"do_damage", "manual_dmg", "auto_dmg"}
    /\ op.ret # None /\ op.ret[1].s_hp.hp = 0
    /\ Len(scene.possible_enemies) = 2
    /\ scene.possible_enemies[1] # scene.possible_enemies[2]
    /\ scene.active_enemy = scene.possible_enemies[1]
    /\ op.ret[1].s_hp.hp_base # scene.active_enemy.s_hp.hp_base

\* The slots of the team that hold no pet.
FreeSlots == {i \in 1..TEAM_SLOTS : player.active_team[i] = None}

\* C8: add_pet on a team with an empty slot puts the battler in the lowest
\* empty slot, returns true and leaves the other slots alone; on a full
\* team it returns false and leaves the team alone.  No step moves or
\* removes the pet of an occupied slot.
C8_RosterInsertion ==
    [][/\ op'.name = "add_pet" =>
              IF FreeSlots # {}
              THEN /\ op'.ok
                   /\ player'.active_team =
                          [player.active_team EXCEPT
                               ![CHOOSE i \in FreeSlots : \A j \in FreeSlots : i <= j]
                                   = Some(op'.arg)]
              ELSE /\ ~op'.ok
                   /\ player'.active_team = player.active_team
       /\ \A i \in 1..TEAM_SLOTS :
              player.active_team[i] # None =>
                  /\ player'.active_team[i] # None
                  /\ player'.active_team[i][1].name = player.active_team[i][1].name]_vars

\* add_pet returned false on a full team whose pets took exp before.
C8_Witness ==
    /\ op.name = "add_pet" /\ ~op.ok
    /\ FreeSlots = {}
    /\ player.active_team[1][1].data.s_level.total_exp > 0
    /\ player.active_team[1][1].name # op.arg.name

\* C9: over any step, an award made directly or by a defeat included, the
\* level of a pet does not go down and its total_exp does not go down.
C9_LevelingMonotonic ==
    [][\A i \in 1..TEAM_SLOTS :
           player.active_team[i] # None =>
               /\ player'.active_team[i] # None
               /\ player'.active_team[i][1].data.s_level.level
                      >= player.active_team[i][1].data.s_level.level
               /\ player'.active_team[i][1].data.s_level.total_exp
                      >= player.active_team[i][1].data.s_level.total_exp]_vars

\* The first two pets, built at different levels, are at the same level
\* after an award: one of them went up.
C9_Witness ==
    /\ player.active_team[1] # None /\ player.active_team[2] # None
    /\ player.active_team[1][1].data.s_level.level
           = player.active_team[2][1].data.s_level.level
    /\ player.active_team[1][1].data.s_level.total_exp > 0

\* C10: the level of every pet is in 1..999 in every state, and an
\* add_exp_to_pets(exp) made on a pet of level 999 returns, leaves it at
\* level 999, adds exp to its total_exp, and its to_next_level() is 0.
C10_LevelCeiling ==
    [][/\ \A i \in 1..TEAM_SLOTS :
              player'.active_team[i] # None =>
                  /\ 1 <= player'.active_team[i][1].data.s_level.level
                  /\ player'.active_team[i][1].data.s_level.level <= 999
       /\ op'.name = "add_exp_to_pets" =>
              \A i \in 1..TEAM_SLOTS :
                  (/\ player.active_team[i] # None
                   /\ player.active_team[i][1].data.s_level.level = 999) =>
                      /\ op'.ok
                      /\ player'.active_team[i][1].data.s_level.level = 999
                      /\ player'.active_team[i][1].data.s_level.total_exp
                             = player.active_team[i][1].data.s_level.total_exp + op'.arg
                      /\ to_next_level(player'.active_team[i][1].data.s_level).val
                             = ToWide(0)]_vars

\* total is above base_exp_needed * (needed_multiplier + 1)^level, the
\* threshold of s as an integer: a threshold of 2^64 or more is above any
\* total.
AboveThreshold(s, total) ==
    ~formula_lvlup(s).ov /\ WideLt(formula_lvlup(s).val, ToWide(total))

\* C11: an add_exp_to_pets(exp) raises the level of a pet by exactly 1 when
\* its level is below 999 and its new total_exp is above the threshold of
\* its old level, and leaves the level alone otherwise; it never raises it
\* by more than 1.
C11_SingleStepLevelUp ==
    [][op'.name = "add_exp_to_pets" =>
           \A i \in 1..TEAM_SLOTS :
               player.active_team[i] # None =>
                   /\ op'.ok
                   /\ player'.active_team[i][1].data.s_level.level =
                          player.active_team[i][1].data.s_level.level
                              + (IF /\ player.active_team[i][1].data.s_level.level < 999
                                    /\ AboveThreshold(
                                           player.active_team[i][1].data.s_level,
                                           player.active_team[i][1].data.s_level.total_exp
                                               + op'.arg)
                                 THEN 1 ELSE 0)]_vars

\* The number of attacks of str S that take an enemy of hp H to 0: H / S
\* rounded up.
AttacksNeeded(H, S) == (H + S - 1) \div S

\* C12: while the first enemy, of hp H, is attacked by a team of str S > 0,
\* its hp is H - k * S after the k-th attack; it is defeated by attack
\* number ceil(H / S) and by none before: total_defeated becomes 1 and,
\* when there is a template, the first template comes in.
C12_DefeatTiming ==
    [][(AttackStep /\ player.total_defeated = 0 /\ TeamStr(player.active_team) > 0) =>
           /\ scene.active_enemy.s_hp.hp
                  = scene.active_enemy.s_hp.hp_base
                        - player.clicks * TeamStr(player.active_team)
           /\ IF player'.clicks < AttacksNeeded(scene.active_enemy.s_hp.hp_base,
                                                TeamStr(player.active_team))
              THEN /\ op'.ret = None
                   /\ player'.total_defeated = 0
                   /\ scene'.active_enemy.s_hp.hp
                          = scene.active_enemy.s_hp.hp_base
                                - player'.clicks * TeamStr(player.active_team)
              ELSE /\ player'.clicks = AttacksNeeded(scene.active_enemy.s_hp.hp_base,
                                                     TeamStr(player.active_team))
                   /\ op'.ret # None
                   /\ player'.total_defeated = 1
                   /\ scene.possible_enemies # <<>> =>
                          scene'.active_enemy = scene.possible_enemies[1]]_vars

\* The first enemy, of the higher hp_base, was defeated by the third attack
\* of a team of two pets, and a template came in.
C12_Witness ==
    /\ op.name \in {"manual_dmg", "auto_dmg"}
    /\ op.ret # None /\ op.ret[1].s_hp.hp_base = RNG_LOW + RNG_LOW \div 2
    /\ player.total_defeated = 1 /\ player.clicks = 3
    /\ player.active_team[2] # None /\ player.active_team[TEAM_SLOTS] = None
    /\ scene.possible_enemies # <<>>
    /\ scene.active_enemy = scene.possible_enemies[1]

\* The tracker of target in a session: of the active enemy (0) or of the
\* pet of a slot.
TrackerOf(sc, p, target) ==
    IF target = 0 THEN sc.active_enemy.s_hp ELSE p.active_team[target][1].s_hp

\* C13: change_hp(value) leaves hp = min(old hp + value, hp_base) when
\* value >= 0 and the old hp when value < 0; it never changes hp_base, and
\* it changes nothing else of the session.
C13_HealResult ==
    [][op'.name = "change_hp" =>
           /\ TrackerOf(scene', player', op'.arg[1]).hp_base
                  = TrackerOf(scene, player, op'.arg[1]).hp_base
           /\ TrackerOf(scene', player', op'.arg[1]).hp =
                  IF op'.arg[2] < 0
                  THEN TrackerOf(scene, player, op'.arg[1]).hp
                  ELSE IF TrackerOf(scene, player, op'.arg[1]).hp + op'.arg[2]
                              < TrackerOf(scene, player, op'.arg[1]).hp_base
                       THEN TrackerOf(scene, player, op'.arg[1]).hp + op'.arg[2]
                       ELSE TrackerOf(scene, player, op'.arg[1]).hp_base
           /\ \A t \in 0..TEAM_SLOTS :
                  (t # op'.arg[1] /\ (t = 0 \/ player.active_team[t] # None)) =>
                      TrackerOf(scene', player', t) = TrackerOf(scene, player, t)
           /\ scene'.possible_enemies = scene.possible_enemies
           /\ frame_time' = frame_time]_vars

\* change_hp(50) took an enemy of hp_base 150 that no attack had hit from
\* 50 to 100: below hp_base, nothing was cut.
C13_Witness ==
    /\ op.name = "change_hp" /\ op.arg = <<0, RNG_LOW \div 2>>
    /\ player.clicks = 0
    /\ scene.active_enemy.s_hp.hp_base = RNG_LOW + RNG_LOW \div 2
    /\ scene.active_enemy.s_hp.hp = RNG_LOW

\* C14: every manual_dmg does to the active enemy a damage equal to the str
\* of the team, the sum over the pets of status.str + status_upgrade.str *
\* level, 0 for an empty team; and it adds exactly 1 to clicks, the enemy
\* defeated or not.
C14_AttackDamage ==
    [][AttackStep =>
           /\ op'.dmg = TeamStr(player.active_team)
           /\ (player.active_team = Player_default.active_team) => op'.dmg = 0
           /\ DamagedHp.hp = HpAfter(scene.active_enemy.s_hp.hp, TeamStr(player.active_team))
           /\ player'.clicks = player.clicks + 1]_vars

\* The second attack of three pets of levels 1, 2 and 1 did 80 and defeated
\* the enemy: clicks is 2.
C14_Witness ==
    /\ op.name \in {"manual_dmg", "auto_dmg"} /\ op.fired = 1
    /\ op.dmg = 80 /\ op.ret # None
    /\ player.active_team[TEAM_SLOTS] # None
    /\ player.clicks = 2 /\ player.total_defeated = 1

\* The level data of the pets of the team.
PetLevels ==
    {player.active_team[i][1].data.s_level :
         i \in {j \in 1..TEAM_SLOTS : player.active_team[j] # None}}

\* C15: for a pet of any level in 1..998, formula_lvlup() is the integer
\* base_exp_needed * (needed_multiplier + 1)^level: the u64 product does
\* not wrap, its reading as an i64 does not change sign, and
\* to_next_level() is that integer minus total_exp.
C15_ThresholdArithmetic ==
    \A s \in PetLevels :
        (1 <= s.level /\ s.level <= 998) =>
            /\ ~formula_lvlup(s).ov
            /\ ~WideIsNegative(formula_lvlup(s).val)
            /\ s.level <= 20 =>
                   formula_lvlup(s).val
                       = ToWide(s.base_exp_needed * (s.needed_multiplier + 1)^s.level)
            /\ ~to_next_level(s).ov
            /\ to_next_level(s).val = WideSub(formula_lvlup(s).val, ToWide(s.total_exp))

\* C16: in a session that starts with the active enemy and the templates at
\* full hp and with a template at least, the active enemy has hp > 0 in
\* every state, so after every manual_dmg and auto_dmg that returned.
C16_ActiveEnemyAlive ==
    scene.possible_enemies # <<>> => scene.active_enemy.s_hp.hp > 0

\* An attack defeated the enemy and returned: the enemy in place is the
\* first template, at full hp.
C16_Witness ==
    /\ op.name \in {"manual_dmg", "auto_dmg"} /\ op.ok
    /\ op.ret # None /\ op.ret[1].s_hp.hp = 0
    /\ scene.possible_enemies # <<>>
    /\ scene.active_enemy = scene.possible_enemies[1]
    /\ scene.active_enemy.s_hp.hp = scene.active_enemy.s_hp.hp_base

\* C17: every auto_dmg(dt) keeps the time: frame_time before the call plus
\* dt is frame_time after it plus 0.6 for each attack it made, and it makes
\* none when frame_time + dt is below 0.6; a manual_dmg leaves frame_time
\* alone.  So the sum of the dt of a run is frame_time plus 0.6 times the
\* attacks auto_dmg made.
C17_TimeConserved ==
    [][/\ (op'.name = "auto_dmg" /\ op'.ok) =>
              /\ frame_time' + TICK_INTERVAL * op'.fired = frame_time + op'.arg
              /\ player'.clicks = player.clicks + op'.fired
              /\ frame_time + op'.arg < TICK_INTERVAL => op'.fired = 0
       /\ op'.name = "manual_dmg" => frame_time' = frame_time]_vars

\* An auto_dmg(1.8) attacked once and kept the 1.2 left.
C17_Witness ==
    /\ op.name = "auto_dmg" /\ op.ok
    /\ op.arg = 3 * TICK_INTERVAL /\ op.fired = 1
    /\ frame_time = 2 * TICK_INTERVAL

\* C18: total_defeated <= clicks in every state; over any step neither
\* counter goes down, total_defeated grows by 1 at most, and it grows only
\* in a step that adds 1 to clicks.
C18_CounterRelation ==
    [][/\ player.total_defeated <= player.clicks
       /\ player'.total_defeated <= player'.clicks
       /\ player'.clicks >= player.clicks
       /\ player'.total_defeated >= player.total_defeated
       /\ player'.total_defeated <= player.total_defeated + 1
       /\ player'.total_defeated > player.total_defeated =>
              /\ player'.clicks = player.clicks + 1
              /\ op'.name \in {"manual_dmg", "auto_dmg"} /\ op'.fired = 1]_vars

\* The second attack defeated the first enemy: one defeat, two clicks.
C18_Witness ==
    /\ op.name \in {"manual_dmg", "auto_dmg"} /\ op.ret # None
    /\ player.total_defeated = 1 /\ player.clicks = 2

\* The session has a template, a team of str > 0, n defeats so far, and
\* room under MaxClicks for the attacks that take the active enemy to 0.
CanDefeat(n) ==
    /\ ~panicked
    /\ scene.possible_enemies # <<>>
    /\ TeamStr(player.active_team) > 0
    /\ player.total_defeated = n
    /\ scene.active_enemy.s_hp.hp > 0
    /\ player.clicks + AttacksNeeded(scene.active_enemy.s_hp.hp,
                                     TeamStr(player.active_team)) <= MaxClicks

\* C19: with a template and a pet at least, when attacks keep being made
\* the active enemy is defeated in the end: total_defeated gets above any
\* value it had.  With an empty team no step changes the enemy or
\* total_defeated.
C19_Progress ==
    /\ \A n \in 0..MaxClicks : CanDefeat(n) ~> (player.total_defeated > n)
    /\ [][player.active_team = Player_default.active_team =>
              /\ scene'.active_enemy = scene.active_enemy
              /\ player'.total_defeated = player.total_defeated]_vars

\* A team of two pets defeated the enemy with a template in the pool.
C19_Witness ==
    /\ scene.possible_enemies # <<>>
    /\ player.active_team[2] # None /\ player.active_team[TEAM_SLOTS] = None
    /\ player.total_defeated = 1
    /\ op.ret # None
\* C20: a manual_dmg call that leaves the active enemy above 0 changes the
\* enemy's hp and clicks and nothing else: total_defeated, every roster
\* slot, frame_time and the enemy's hp_base and level are as before.  No
\* manual_dmg or auto_dmg call changes possible_enemies.
C20_AttackFrame ==
    [][/\ (op'.name = "manual_dmg" /\ op'.ok /\ op'.ret = None) =>
              /\ player' = [player EXCEPT !.clicks = @ + 1]
              /\ frame_time' = frame_time
              /\ scene' = [scene EXCEPT !.active_enemy.s_hp.hp =
                                           scene'.active_enemy.s_hp.hp]
       /\ scene'.possible_enemies = scene.possible_enemies]_vars

\* An attack of a team with a pet lowered the enemy's hp and left it above 0.
C20_Witness ==
    /\ op.name = "manual_dmg" /\ op.ret = None /\ op.dmg > 0
    /\ scene.possible_enemies # <<>>
    /\ scene.active_enemy.s_hp.hp > 0
    /\ scene.active_enemy.s_hp.hp < scene.active_enemy.s_hp.hp_base
    /\ player.clicks = 1 /\ player.total_defeated = 0

=============================================================================
